---- MODULE Spec2Model ----
(***************************************************************************)
(* Rail chatbot backend: the tool-calling loop of                          *)
(* ChatOrchestrator.process_message (app/orchestrator.py) over the         *)
(* JSON-RPC client McpClient (app/mcp_client.py) and the LLM turn client   *)
(* LlmClient.chat (app/llm_client.py).                                     *)
(*                                                                         *)
(* The program runs on one asyncio event loop.  A step of the model is the *)
(* code a coroutine executes between two suspension points: an await of a  *)
(* network call (HTTP post, chat completion) or a yield of an event to the *)
(* consumer of the generator.  Everything between two suspension points is *)
(* one atomic action.                                                      *)
(***************************************************************************)
EXTENDS Integers, Sequences, FiniteSets, TLC

VARIABLES
    mcp,    \* the fields of the one shared McpClient instance
    wire,   \* every JSON-RPC body the client handed to the HTTP transport, in order
    run,    \* run[r]: the frame of one process_message generator
    api     \* api[c]: a caller that invokes McpClient operations directly

vars == <<mcp, wire, run, api>>

-----------------------------------------------------------------------------
(* Program constants and model bounds *)

MAX_TOOL_ITERATIONS == 10

\* Largest number of function calls the provider requests in one reply.
MaxBatch == 2
\* Largest number of tool calls of one run that fail (isError result or raise).
MaxToolFailures == 1
\* Tool-calls replies the provider gives in all when two runs share the client.
MaxConcToolTurns == 1
\* Operations a direct caller of the client performs.
MaxOps == 4
\* Operations each of the callers performs whose operations overlap.
MaxOverlapOps == 2
\* Operations the callers perform in all when they and a shutdown share the client.
MaxSharedOps == 2

None == "None"

Runs == {"r1", "r2"}
Callers == {"a", "b"}
\* The caller that uses the client on its own.
Alone == {"a"}

ToolNames == <<"get_fare", "get_pnr", "get_trains">>

\* The tool lists a tools/list reply can carry (result.tools), as McpTool names.
ToolLists == {<< >>, <<"get_fare", "get_pnr">>}

UserTurn(text) ==
    [role |-> "user", content |-> <<text>>, tool_call_id |-> None, tool_calls |-> << >>]

\* The history each of two callers passes: they differ.  The second holds an
\* earlier exchange in which one tool was called.
HistoryOf ==
    [r \in Runs |->
       IF r = "r1" THEN << >>
       ELSE << UserTurn("hello"),
               [role |-> "assistant", content |-> << >>, tool_call_id |-> None,
                tool_calls |-> << [id |-> <<"call", 0>>, name |-> "get_trains",
                                   arguments |-> << >>] >>],
               [role |-> "tool", content |-> <<"2 trains">>,
                tool_call_id |-> <<"call", 0>>, tool_calls |-> << >>],
               [role |-> "assistant", content |-> <<"hi">>, tool_call_id |-> None,
                tool_calls |-> << >>] >>]

\* The caller-supplied histories: none, or one earlier exchange.
Histories == {HistoryOf[r] : r \in Runs}

-----------------------------------------------------------------------------
(* McpClient *)

\* McpClient.__init__
McpInit ==
    [request_id |-> 0, is_initialized |-> FALSE, session_id |-> None,
     cached_tools |-> << >>, http_closed |-> FALSE]

\* What the server and the transport can answer to a posted request: a result
\* envelope, a JSON-RPC error envelope, or a failure of the HTTP exchange.
ReplyKinds == {"result", "error", "transport"}

\* A value of an argument map, with the text str() gives for it.
ArgNone == [type |-> "none", text |-> "None"]
ArgStr(s) == [type |-> "str", text |-> s]
ArgInt(s) == [type |-> "int", text |-> s]

\* call_tool's coercion: str(v) if v is not None else None
StrValueOfNone(v) == [type |-> "str", text |-> v.text]

StrValue(v) == IF v.type # "none" THEN [type |-> "str", text |-> v.text] ELSE v

StringArgs(arguments) == [k \in DOMAIN arguments |-> StrValue(arguments[k])]

NoParams == [name |-> None, arguments |-> << >>]

\* _send_request up to its await: the counter is incremented, the body built with
\* the new id and handed to the transport.  A closed transport raises at once and
\* nothing goes out.  Result: the client, the wire, and whether a reply is awaited.
SendRequestMissingIncrement(m, w, method, params) ==
    LET body == [kind |-> "request", id |-> m.request_id + 1, method |-> method,
                 session |-> m.session_id, params |-> params]
    IN  IF m.http_closed
        THEN [m |-> m, w |-> w, posted |-> FALSE]
        ELSE [m |-> m, w |-> Append(w, body), posted |-> TRUE]

SendRequest(m, w, method, params) ==
    LET m1   == [m EXCEPT !.request_id = @ + 1]
        body == [kind |-> "request", id |-> m1.request_id, method |-> method,
                 session |-> m1.session_id, params |-> params]
    IN  IF m1.http_closed
        THEN [m |-> m1, w |-> w, posted |-> FALSE]
        ELSE [m |-> m1, w |-> Append(w, body), posted |-> TRUE]

\* _send_notification up to its await: a body without id.  A closed transport
\* raises at once, which the except clause swallows.
SendNotification(m, w, method) ==
    LET body == [kind |-> "notification", id |-> 0, method |-> method,
                 session |-> m.session_id, params |-> NoParams]
    IN  IF m.http_closed
        THEN [m |-> m, w |-> w, posted |-> FALSE]
        ELSE [m |-> m, w |-> Append(w, body), posted |-> TRUE]

\* The position of a client operation: suspended at one of its awaits, or over.
Suspended == {"init_req", "init_notif", "list_req", "call_req"}

Pos(m, w, at, value) == [m |-> m, w |-> w, at |-> at, value |-> value]

\* call_tool after _ensure_initialized: coerce the arguments, send tools/call.
CallToolBody(m, w, name, arguments) ==
    LET s == SendRequest(m, w, "tools/call",
                         [name |-> name, arguments |-> StringArgs(arguments)])
    IN  Pos(s.m, s.w, IF s.posted THEN "call_req" ELSE "raise", "transport")

\* list_tools after _ensure_initialized: the cache if it is truthy, else tools/list.
ListToolsBody(m, w) ==
    IF m.cached_tools # << >>
    THEN Pos(m, w, "return", m.cached_tools)
    ELSE LET s == SendRequest(m, w, "tools/list", NoParams)
         IN  Pos(s.m, s.w, IF s.posted THEN "list_req" ELSE "raise", "transport")

\* The operation `op` continues after its handshake is over.
AfterHandshake(m, w, op, call) ==
    CASE op = "initialize" -> Pos(m, w, "return", None)
      [] op = "list_tools" -> ListToolsBody(m, w)
      [] op = "call_tool"  -> CallToolBody(m, w, call.name, call.arguments)

\* initialize from its first line to its first await.
InitializeBeginNoGuard(m, w, op, call) ==
    LET s == SendRequest(m, w, "initialize", NoParams)
    IN  Pos(s.m, s.w, IF s.posted THEN "init_req" ELSE "raise", "transport")

InitializeBegin(m, w, op, call) ==
    IF m.is_initialized
    THEN AfterHandshake(m, w, op, call)
    ELSE LET s == SendRequest(m, w, "initialize", NoParams)
         IN  Pos(s.m, s.w, IF s.posted THEN "init_req" ELSE "raise", "transport")

\* _ensure_initialized, then the operation.
EnsureInitializedSkips(m, w, op, call) == AfterHandshake(m, w, op, call)

EnsureInitialized(m, w, op, call) ==
    IF ~m.is_initialized
    THEN InitializeBegin(m, w, op, call)
    ELSE AfterHandshake(m, w, op, call)

\* A public operation of the client from its call to its first await or its end.
ClientBegin(m, w, op, call) ==
    IF op = "initialize"
    THEN InitializeBegin(m, w, op, call)
    ELSE EnsureInitialized(m, w, op, call)

\* initialize once the notification is out (or its failure swallowed): the flag
\* is set and the operation that needed the handshake goes on.
InitializeDone(m, w, op, call) ==
    AfterHandshake([m EXCEPT !.is_initialized = TRUE], w, op, call)

\* initialize resumed with the reply to its request.
InitializeOnReplyFlagEarly(m, w, op, call, reply) ==
    IF reply.kind # "result"
    THEN Pos([m EXCEPT !.is_initialized = TRUE], w, "raise", reply.kind)
    ELSE LET s == SendNotification(m, w, "notifications/initialized")
         IN  IF s.posted
             THEN Pos(s.m, s.w, "init_notif", None)
             ELSE InitializeDone(s.m, s.w, op, call)

InitializeOnReplyKeepsSession(m, w, op, call, reply) ==
    IF reply.kind # "result"
    THEN Pos(m, w, "raise", reply.kind)
    ELSE LET s == SendNotification([m EXCEPT !.session_id = reply.session], w,
                                   "notifications/initialized")
         IN  IF s.posted
             THEN Pos(s.m, s.w, "init_notif", None)
             ELSE InitializeDone(s.m, s.w, op, call)

InitializeOnReplyNotifiesFirst(m, w, op, call, reply) ==
    LET s == SendNotification(m, w, "notifications/initialized")
    IN  IF reply.kind # "result"
        THEN Pos(s.m, s.w, "raise", reply.kind)
        ELSE IF s.posted
             THEN Pos(s.m, s.w, "init_notif", None)
             ELSE InitializeDone(s.m, s.w, op, call)

InitializeOnReplyResets(m, w, op, call, reply) ==
    IF reply.kind # "result"
    THEN Pos([m EXCEPT !.is_initialized = FALSE], w, "raise", reply.kind)
    ELSE LET s == SendNotification(m, w, "notifications/initialized")
         IN  IF s.posted
             THEN Pos(s.m, s.w, "init_notif", None)
             ELSE InitializeDone(s.m, s.w, op, call)

InitializeOnReply(m, w, op, call, reply) ==
    IF reply.kind # "result"
    THEN Pos(m, w, "raise", reply.kind)
    ELSE LET s == SendNotification(m, w, "notifications/initialized")
         IN  IF s.posted
             THEN Pos(s.m, s.w, "init_notif", None)
             ELSE InitializeDone(s.m, s.w, op, call)

\* list_tools resumed with the reply to tools/list.
ListToolsOnReply(m, w, reply) ==
    IF reply.kind # "result"
    THEN Pos(m, w, "raise", reply.kind)
    ELSE Pos([m EXCEPT !.cached_tools = reply.tools], w, "return", reply.tools)

\* call_tool resumed with the reply to tools/call: McpToolResult(content, is_error).
CallToolOnReply(m, w, reply) ==
    IF reply.kind # "result"
    THEN Pos(m, w, "raise", reply.kind)
    ELSE Pos(m, w, "return", [content |-> reply.content, is_error |-> reply.is_error])

\* A suspended client operation resumed by the transport.
ClientResumeNotificationRaises(m, w, op, call, at, reply) ==
    CASE at = "init_req"   -> InitializeOnReply(m, w, op, call, reply)
      [] at = "init_notif" -> IF reply.kind = "transport"
                              THEN Pos(m, w, "raise", reply.kind)
                              ELSE InitializeDone(m, w, op, call)
      [] at = "list_req"   -> ListToolsOnReply(m, w, reply)
      [] at = "call_req"   -> CallToolOnReply(m, w, reply)

ClientResume(m, w, op, call, at, reply) ==
    CASE at = "init_req"   -> InitializeOnReply(m, w, op, call, reply)
      [] at = "init_notif" -> InitializeDone(m, w, op, call)
      [] at = "list_req"   -> ListToolsOnReply(m, w, reply)
      [] at = "call_req"   -> CallToolOnReply(m, w, reply)

\* disconnect: the three fields reset, the HTTP client closed; the counter stays.
DisconnectClient(m) ==
    [m EXCEPT !.is_initialized = FALSE, !.session_id = None,
              !.cached_tools = << >>, !.http_closed = TRUE]

\* The replies the transport can deliver for a request awaited at `at`.
\* The reply to initialize may offer a session id.
InitReplies == {[kind |-> k, session |-> s] : k \in ReplyKinds, s \in {None, "session-1"}}

ListReplies ==
    {[kind |-> "result", tools |-> t] : t \in ToolLists}
        \cup {[kind |-> "error"], [kind |-> "transport"]}

ToolResults ==
    { [kind |-> "result", is_error |-> FALSE,
       content |-> << [type |-> "text", text |-> "1200"], [type |-> "image", text |-> None] >>],
      [kind |-> "result", is_error |-> TRUE,
       content |-> << [type |-> "text", text |-> "invalid input"] >>] }

CallReplies == ToolResults \cup {[kind |-> "error"], [kind |-> "transport"]}

RepliesAt(at) ==
    CASE at = "init_req"   -> InitReplies
      [] at = "init_notif" -> {[kind |-> "result"], [kind |-> "transport"]}
      [] at = "list_req"   -> ListReplies
      [] at = "call_req"   -> CallReplies

-----------------------------------------------------------------------------
(* LlmClient.chat *)

\* The arguments text of a requested function call, as json.loads sees it.
JsonObject(value) == [json |-> "object", value |-> value]
JsonMalformed == [json |-> "malformed", value |-> << >>]

\* json.loads(tc.function.arguments), with JSONDecodeError turned into {}.
ParseArgumentsKeepsText(text) ==
    IF text.json = "object" THEN text.value ELSE [raw |-> ArgStr("{")]

ParseArguments(text) == IF text.json = "object" THEN text.value ELSE << >>

\* The function call the provider requests at position k of a reply.
ArgumentTexts ==
    << JsonObject([pnr |-> ArgInt("12345"), x |-> ArgNone]),
       JsonMalformed,
       JsonObject([train |-> ArgStr("12345")]) >>

ProviderCall(k) ==
    [id |-> <<"call", k>>,
     name |-> ToolNames[((k - 1) % Len(ToolNames)) + 1],
     arguments |-> ArgumentTexts[((k - 1) % Len(ArgumentTexts)) + 1]]

\* The replies the provider can give on LLM turn i: a failure of the exchange, a
\* message with one of `contents`, a message requesting 1..MaxBatch function calls.
BatchSize(i) == ((i - 1) % MaxBatch) + 1

ProviderReplies(i, contents) ==
    { [kind |-> "fail", content |-> None, tool_calls |-> << >>] }
    \cup { [kind |-> "message", content |-> c, tool_calls |-> << >>] :
             c \in contents }
    \cup { [kind |-> "message", content |-> None,
            tool_calls |-> [k \in 1..BatchSize(i) |-> ProviderCall(k)]] }

\* chat: the reply classified as LlmError, ToolCallsResponse or TextResponse.
Chat(reply) ==
    IF reply.kind = "fail"
    THEN [class |-> "LlmError", message |-> "provider failure", text |-> "",
          tool_calls |-> << >>]
    ELSE IF reply.tool_calls # << >>
    THEN [class |-> "ToolCallsResponse", message |-> "", text |-> "",
          tool_calls |-> [k \in 1..Len(reply.tool_calls) |->
                            [id |-> reply.tool_calls[k].id,
                             name |-> reply.tool_calls[k].name,
                             arguments |-> ParseArguments(reply.tool_calls[k].arguments)]]]
    ELSE [class |-> "TextResponse", message |-> "",
          text |-> IF reply.content = None THEN "" ELSE reply.content,
          tool_calls |-> << >>]

-----------------------------------------------------------------------------
(* ChatOrchestrator.process_message *)

NoCall == [id |-> None, name |-> None, arguments |-> << >>]

\* A generator that has not been created.
IdleRun ==
    [pc |-> "idle", op |-> "none", history |-> << >>, messages |-> << >>,
     tools |-> << >>, iterations |-> 0, tool_calls |-> << >>, idx |-> 0,
     pending |-> << >>, events |-> << >>, chats |-> 0, tool_turns |-> 0,
     failures |-> 0, stub |-> [turns |-> 0, contents |-> {}]]

\* OrchestratorEvent values.
Event(type, name, detail) == [type |-> type, name |-> name, detail |-> detail]

Yield(S, ev, pc) ==
    [S EXCEPT !.r.events = Append(@, ev), !.r.pc = pc, !.r.op = "none"]

\* The outer except clause: one error event, then the generator ends.
OuterExceptPropagates(S, cause) ==
    [S EXCEPT !.r.pc = "finished", !.r.op = "none"]

OuterExceptThenDone(S, cause) ==
    Yield(S, Event("error", None, <<"An error occurred", cause>>), "y_response")

OuterExcept(S, cause) ==
    Yield(S, Event("error", None, <<"An error occurred", cause>>), "y_error")

\* The current call of the batch.
ToolCallOf(rn) == rn.tool_calls[rn.idx]

\* for tool_call in llm_response.tool_calls: the start event of call idx.
YieldToolStart(S) ==
    Yield(S, Event("tool_start", ToolCallOf(S.r).name, ToolCallOf(S.r).arguments),
          "y_tool_start")

\* while iterations < MAX_TOOL_ITERATIONS: the next turn is sent to the LLM, or
\* the loop is left and the maximum-iterations error is yielded.
LoopHeadOffByOne(S) ==
    IF S.r.iterations <= MAX_TOOL_ITERATIONS
    THEN [S EXCEPT !.r.iterations = @ + 1, !.r.chats = @ + 1, !.r.pc = "llm",
                   !.r.op = "none"]
    ELSE Yield(S, Event("error", None, <<"Maximum tool iterations reached">>),
               "y_error")

LoopHead(S) ==
    IF S.r.iterations < MAX_TOOL_ITERATIONS
    THEN [S EXCEPT !.r.iterations = @ + 1, !.r.chats = @ + 1, !.r.pc = "llm",
                   !.r.op = "none"]
    ELSE Yield(S, Event("error", None, <<"Maximum tool iterations reached">>),
               "y_error")

\* list_tools returned: the conversation is built and the loop entered.
EnterLoopSharesHistory(S, tools) ==
    LoopHead([S EXCEPT !.r.tools = tools,
                       !.r.history = Append(S.r.history, UserTurn("message")),
                       !.r.messages = Append(S.r.history, UserTurn("message")),
                       !.r.iterations = 0])

EnterLoop(S, tools) ==
    LoopHead([S EXCEPT !.r.tools = tools,
                       !.r.messages = Append(S.r.history, UserTurn("message")),
                       !.r.iterations = 0])

\* "\n".join(c.text for c in result.content if c.text), as the list of lines.
TextParts(content) ==
    LET kept == SelectSeq(content, LAMBDA c : c.text # None /\ c.text # "")
    IN  [k \in 1..Len(kept) |-> kept[k].text]

\* call_tool returned a result: tool_complete, or tool_error for an isError result.
ToolReturned(S, result) ==
    LET result_text == TextParts(result.content)
    IN  Yield([S EXCEPT !.r.pending = result_text],
              Event(IF result.is_error THEN "tool_error" ELSE "tool_complete",
                    ToolCallOf(S.r).name, result_text),
              "y_tool_result")

\* call_tool raised: the inner except clause yields tool_error.
ToolRaisedSilently(S, cause) ==
    [S EXCEPT !.r.pending = <<"Tool execution failed", cause>>,
              !.r.pc = "y_tool_result", !.r.op = "none"]

ToolRaisedRetries(S, cause) ==
    LET s == SendRequest(S.m, S.w, "tools/call", S.w[Len(S.w)].params)
    IN  [S EXCEPT !.m = s.m, !.w = s.w, !.r.pc = "call_req", !.r.op = "call_tool"]

ToolRaisedPropagates(S, cause) == OuterExcept(S, cause)

ToolRaised(S, cause) ==
    LET error_msg == <<"Tool execution failed", cause>>
    IN  Yield([S EXCEPT !.r.pending = error_msg],
              Event("tool_error", ToolCallOf(S.r).name, error_msg),
              "y_tool_result")

\* The run suspends in the client operation, or goes on with what it returned.
AfterClient(S, op, p) ==
    LET T == [S EXCEPT !.m = p.m, !.w = p.w]
    IN  CASE p.at \in Suspended ->
               [T EXCEPT !.r.pc = p.at, !.r.op = op]
          [] p.at = "raise" /\ op = "call_tool" -> ToolRaised(T, p.value)
          [] p.at = "raise" /\ op # "call_tool" -> OuterExcept(T, p.value)
          [] p.at = "return" /\ op = "call_tool" -> ToolReturned(T, p.value)
          [] p.at = "return" /\ op = "list_tools" -> EnterLoop(T, p.value)
          [] p.at = "return" /\ op = "initialize" ->
               \* tools = await self.mcp_client.list_tools()
               LET q == ClientBegin(T.m, T.w, "list_tools", NoCall)
                   U == [T EXCEPT !.m = q.m, !.w = q.w]
               IN  CASE q.at \in Suspended ->
                          [U EXCEPT !.r.pc = q.at, !.r.op = "list_tools"]
                     [] q.at = "raise" -> OuterExcept(U, q.value)
                     [] q.at = "return" -> EnterLoop(U, q.value)

-----------------------------------------------------------------------------
(* The actions: one per resumption of a coroutine *)

Frame(r) == [m |-> mcp, w |-> wire, r |-> run[r]]

Commit(r, S) ==
    /\ mcp' = S.m
    /\ wire' = S.w
    /\ run' = [run EXCEPT ![r] = S.r]
    /\ UNCHANGED api

CallOf(rn) == IF rn.op = "call_tool" THEN ToolCallOf(rn) ELSE NoCall

\* Tool-calls replies given and tool calls failed so far, over all runs.
RECURSIVE Total(_, _)
Total(field, rs) ==
    IF rs = {} THEN 0
    ELSE LET r == CHOOSE x \in rs : TRUE
         IN  run[r][field] + Total(field, rs \ {r})

\* process_message is called and iterated: the generator runs to its first yield,
\* the thinking event.  `stub` is the provider the run talks to: the number of
\* tool-calls replies it gives and the contents of its messages; `histories` are
\* the histories the caller may pass.
StartRunCallsFirst(r, stub, histories) ==
    /\ run[r].pc = "idle"
    /\ \E h \in histories :
         run' = [run EXCEPT ![r] =
                   [IdleRun EXCEPT !.pc = "y_thinking", !.history = h,
                                   !.stub = stub,
                                   !.events = << Event("thinking", None,
                                                       <<"Analyzing your request...">>) >>]]
    /\ LET s == SendRequest(mcp, wire, "initialize", NoParams)
       IN  mcp' = s.m /\ wire' = s.w
    /\ UNCHANGED api

StartRun(r, stub, histories) ==
    /\ run[r].pc = "idle"
    /\ \E h \in histories :
         run' = [run EXCEPT ![r] =
                   [IdleRun EXCEPT !.pc = "y_thinking", !.history = h,
                                   !.stub = stub,
                                   !.events = << Event("thinking", None,
                                                       <<"Analyzing your request...">>) >>]]
    /\ UNCHANGED <<mcp, wire, api>>

\* Resumed after thinking: await self.mcp_client.initialize()
ResumeThinking(r) ==
    /\ run[r].pc = "y_thinking"
    /\ Commit(r, AfterClient(Frame(r), "initialize",
                             ClientBegin(mcp, wire, "initialize", NoCall)))

\* The reply to an initialize request arrives.
InitializeReply(r) ==
    /\ run[r].pc = "init_req"
    /\ \E reply \in RepliesAt("init_req") :
         Commit(r, AfterClient(Frame(r), run[r].op,
                               ClientResume(mcp, wire, run[r].op, CallOf(run[r]),
                                            "init_req", reply)))

\* The post of the initialized notification is over, whether it went through or not.
NotificationPosted(r) ==
    /\ run[r].pc = "init_notif"
    /\ \E reply \in RepliesAt("init_notif") :
         Commit(r, AfterClient(Frame(r), run[r].op,
                               ClientResume(mcp, wire, run[r].op, CallOf(run[r]),
                                            "init_notif", reply)))

\* The reply to a tools/list request arrives.
ToolsListReply(r) ==
    /\ run[r].pc = "list_req"
    /\ \E reply \in RepliesAt("list_req") :
         Commit(r, AfterClient(Frame(r), run[r].op,
                               ClientResume(mcp, wire, run[r].op, CallOf(run[r]),
                                            "list_req", reply)))

\* Whether a tools/call reply makes the tool call fail.
Failing(reply) == reply.kind # "result" \/ reply.is_error

\* The reply to a tools/call request arrives.
ToolsCallReply(r) ==
    /\ run[r].pc = "call_req"
    /\ \E reply \in RepliesAt("call_req") :
         /\ Failing(reply) => Total("failures", Runs) < MaxToolFailures
         /\ LET S == [Frame(r) EXCEPT
                        !.r.failures = IF Failing(reply) THEN @ + 1 ELSE @]
            IN  Commit(r, AfterClient(S, "call_tool",
                                      ClientResume(mcp, wire, "call_tool",
                                                   CallOf(run[r]), "call_req", reply)))

\* llm_response = await self.llm_client.chat(messages, tools) returns.
OnChat(S, llm_response) ==
    CASE llm_response.class = "LlmError" ->
           Yield(S, Event("error", None, <<"AI error", llm_response.message>>),
                 "y_error")
      [] llm_response.class = "TextResponse" ->
           Yield(S, Event("response", None, <<llm_response.text>>), "y_response")
      [] llm_response.class = "ToolCallsResponse" ->
           YieldToolStart(
             [S EXCEPT !.r.messages =
                         Append(@, [role |-> "assistant", content |-> << >>,
                                    tool_call_id |-> None,
                                    tool_calls |-> llm_response.tool_calls]),
                       !.r.tool_calls = llm_response.tool_calls,
                       !.r.tool_turns = @ + 1,
                       !.r.idx = 1])

ChatReply(r) ==
    /\ run[r].pc = "llm"
    /\ \E reply \in ProviderReplies(run[r].iterations, run[r].stub.contents) :
         /\ reply.tool_calls # << >> => Total("tool_turns", Runs) < run[r].stub.turns
         /\ Commit(r, OnChat(Frame(r), Chat(reply)))

\* Resumed after response: yield done.
ResumeResponse(r) ==
    /\ run[r].pc = "y_response"
    /\ Commit(r, Yield(Frame(r), Event("done", None, << >>), "y_done"))

\* Resumed after done: return.
ResumeDoneNoReturn(r) ==
    /\ run[r].pc = "y_done"
    /\ Commit(r, LoopHead(Frame(r)))

ResumeDone(r) ==
    /\ run[r].pc = "y_done"
    /\ Commit(r, [Frame(r) EXCEPT !.r.pc = "finished"])

\* Resumed after an error event: the generator ends.
ResumeErrorNoReturn(r) ==
    /\ run[r].pc = "y_error"
    /\ Commit(r, IF run[r].events[Len(run[r].events)].detail[1] = "AI error"
                 THEN LoopHead(Frame(r))
                 ELSE [Frame(r) EXCEPT !.r.pc = "finished"])

ResumeError(r) ==
    /\ run[r].pc = "y_error"
    /\ Commit(r, [Frame(r) EXCEPT !.r.pc = "finished"])

\* Resumed after tool_start: await self.mcp_client.call_tool(name, arguments)
ResumeToolStart(r) ==
    /\ run[r].pc = "y_tool_start"
    /\ Commit(r, AfterClient(Frame(r), "call_tool",
                             ClientBegin(mcp, wire, "call_tool", ToolCallOf(run[r]))))

\* Resumed after tool_complete or tool_error: the tool turn is appended, then the
\* next call of the batch starts or the loop goes round.
OnToolResultSkipsRaised(S) ==
    LET raised == S.r.pending # << >> /\ S.r.pending[1] = "Tool execution failed"
        T == IF raised THEN [S EXCEPT !.r.pending = << >>]
             ELSE [S EXCEPT !.r.messages =
                              Append(@, [role |-> "tool", content |-> S.r.pending,
                                         tool_call_id |-> ToolCallOf(S.r).id,
                                         tool_calls |-> << >>]),
                            !.r.pending = << >>]
    IN  IF T.r.idx < Len(T.r.tool_calls)
        THEN YieldToolStart([T EXCEPT !.r.idx = @ + 1])
        ELSE LoopHead(T)

OnToolResult(S) ==
    LET T == [S EXCEPT !.r.messages =
                         Append(@, [role |-> "tool", content |-> S.r.pending,
                                    tool_call_id |-> ToolCallOf(S.r).id,
                                    tool_calls |-> << >>]),
                       !.r.pending = << >>]
    IN  IF T.r.idx < Len(T.r.tool_calls)
        THEN YieldToolStart([T EXCEPT !.r.idx = @ + 1])
        ELSE LoopHead(T)

ResumeToolResult(r) ==
    /\ run[r].pc = "y_tool_result"
    /\ Commit(r, OnToolResult(Frame(r)))

\* McpClient.disconnect, called by ChatOrchestrator.close at shutdown.
Disconnect ==
    /\ ~mcp.http_closed
    /\ mcp' = DisconnectClient(mcp)
    /\ UNCHANGED <<wire, run, api>>

RunStep(r) ==
    \/ ResumeThinking(r)
    \/ InitializeReply(r)
    \/ NotificationPosted(r)
    \/ ToolsListReply(r)
    \/ ChatReply(r)
    \/ ResumeResponse(r)
    \/ ResumeDone(r)
    \/ ResumeError(r)
    \/ ResumeToolStart(r)
    \/ ToolsCallReply(r)
    \/ ResumeToolResult(r)

IdleCaller == [pc |-> "idle", op |-> "none", call |-> NoCall, trace |-> << >>]

Init ==
    /\ mcp = McpInit
    /\ wire = << >>
    /\ run = [r \in Runs |-> IdleRun]
    /\ api = [c \in Callers |-> IdleCaller]

\* A provider that may request tools on every turn and may leave the content out.
FullStub == [turns |-> MAX_TOOL_ITERATIONS, contents |-> {"The fare is 1200", None}]

\* The provider two runs share: MaxConcToolTurns tool-calls replies in all.
ConcStub == [turns |-> MaxConcToolTurns, contents |-> {"The fare is 1200"}]

\* One run of process_message on a fresh client.
Next == StartRun("r1", FullStub, Histories) \/ RunStep("r1")

Spec == Init /\ [][Next]_vars

\* Two runs on the shared client, the second called after the first has ended.
NextSeq ==
    \/ StartRun("r1", ConcStub, {HistoryOf["r1"]})
    \/ RunStep("r1")
    \/ (run["r1"].pc = "finished" /\ StartRun("r2", ConcStub, {HistoryOf["r2"]}))
    \/ RunStep("r2")

SeqSpec == Init /\ [][NextSeq]_vars

\* Runs that overlap on the shared client, and a shutdown at any moment.
NextConc ==
    \/ \E r \in Runs : StartRun(r, ConcStub, {HistoryOf[r]}) \/ RunStep(r)
    \/ Disconnect

ConcSpec == Init /\ [][NextConc]_vars

-----------------------------------------------------------------------------
(* A caller that uses the client directly, one operation after the other *)

\* The calls a direct caller makes of call_tool.
CallerCalls ==
    { [id |-> None, name |-> "get_fare",
       arguments |-> [pnr |-> ArgInt("12345"), x |-> ArgNone]],
      [id |-> None, name |-> "get_pnr", arguments |-> [pnr |-> ArgStr("12345")]] }

\* The operation is over or suspended: when over, its outcome, what it returned,
\* the client's fields and the number of bodies sent are noted in the trace.
CallerAfter(c, op, call, p) ==
    /\ mcp' = p.m
    /\ wire' = p.w
    /\ api' = [api EXCEPT ![c] =
                 IF p.at \in Suspended
                 THEN [@ EXCEPT !.pc = p.at, !.op = op, !.call = call]
                 ELSE [@ EXCEPT !.pc = "idle", !.op = "none", !.call = NoCall,
                                !.trace = Append(@, [op |-> op, outcome |-> p.at,
                                                     value |-> p.value, mcp |-> p.m,
                                                     sent |-> Len(p.w)])]]
    /\ UNCHANGED run

CallInitialize(c) ==
    /\ api[c].pc = "idle"
    /\ Len(api[c].trace) < MaxOps
    /\ CallerAfter(c, "initialize", NoCall, ClientBegin(mcp, wire, "initialize", NoCall))

CallListTools(c) ==
    /\ api[c].pc = "idle"
    /\ Len(api[c].trace) < MaxOps
    /\ CallerAfter(c, "list_tools", NoCall, ClientBegin(mcp, wire, "list_tools", NoCall))

CallCallTool(c) ==
    /\ api[c].pc = "idle"
    /\ Len(api[c].trace) < MaxOps
    /\ \E call \in CallerCalls :
         CallerAfter(c, "call_tool", call, ClientBegin(mcp, wire, "call_tool", call))

CallDisconnect(c) ==
    /\ api[c].pc = "idle"
    /\ Len(api[c].trace) < MaxOps
    /\ CallerAfter(c, "disconnect", NoCall, Pos(DisconnectClient(mcp), wire, "return", None))

\* The transport resumes the caller's operation.
CallerReply(c) ==
    /\ api[c].pc \in Suspended
    /\ \E reply \in RepliesAt(api[c].pc) :
         CallerAfter(c, api[c].op, api[c].call,
                     ClientResume(mcp, wire, api[c].op, api[c].call, api[c].pc, reply))

NextClient ==
    \E c \in Alone :
        \/ CallInitialize(c)
        \/ CallListTools(c)
        \/ CallCallTool(c)
        \/ CallDisconnect(c)
        \/ CallerReply(c)

ClientSpec == Init /\ [][NextClient]_vars

\* Callers whose initialize calls overlap at their awaits on the shared client.
NextOverlap ==
    \E c \in Callers :
        \/ (Len(api[c].trace) < MaxOverlapOps /\ CallInitialize(c))
        \/ CallerReply(c)

OverlapSpec == Init /\ [][NextOverlap]_vars

\* Users of the shared client (runs, endpoints) whose operations interleave at
\* their awaits, and a shutdown that disconnects the client at any moment.
RECURSIVE OpsBegun(_)
OpsBegun(cs) ==
    IF cs = {} THEN 0
    ELSE LET c == CHOOSE x \in cs : TRUE
         IN  Len(api[c].trace) + (IF api[c].pc = "idle" THEN 0 ELSE 1)
               + OpsBegun(cs \ {c})

NextShared ==
    \/ \E c \in Callers :
          \/ (OpsBegun(Callers) < MaxSharedOps /\ CallInitialize(c))
          \/ (OpsBegun(Callers) < MaxSharedOps /\ CallListTools(c))
          \/ (OpsBegun(Callers) < MaxSharedOps /\ CallCallTool(c))
          \/ CallerReply(c)
    \/ Disconnect

SharedSpec == Init /\ [][NextShared]_vars

\* The same run when every network call returns or raises and the consumer keeps
\* iterating the generator: no resumption is postponed for ever.
FairSpec == Spec /\ WF_vars(RunStep("r1"))

-----------------------------------------------------------------------------
(* Properties of the event sequence of a run *)

Started(r) == run[r].pc # "idle"
Finished(r) == run[r].pc = "finished"
Events(r) == run[r].events
Last(seq) == seq[Len(seq)]

Positions(r, types) == {i \in DOMAIN Events(r) : Events(r)[i].type \in types}
HasEvent(r, type) == Positions(r, {type}) # {}

Terminals == {"done", "error"}
ToolOutcomes == {"tool_complete", "tool_error"}

ErrorKind(ev) == ev.detail[1]

\* The calls requested so far by the tool-calls turns of this run, in order.
RECURSIVE CallsIn(_)
CallsIn(turns) ==
    IF turns = << >> THEN << >>
    ELSE LET t == turns[1] IN
         (IF t.role = "assistant" THEN t.tool_calls ELSE << >>) \o CallsIn(Tail(turns))

OwnTurns(r) == SubSeq(run[r].messages, Len(run[r].history) + 1, Len(run[r].messages))

Requested(r) == CallsIn(OwnTurns(r))

\* The calls of the current batch that have not been started yet.
NotStarted(r) ==
    IF run[r].pc \in {"y_tool_start", "init_req", "init_notif", "call_req", "y_tool_result"}
       /\ run[r].tool_calls # << >>
    THEN Len(run[r].tool_calls) - run[r].idx
    ELSE 0

ToolStarts(r) ==
    SelectSeq(Events(r), LAMBDA ev : ev.type = "tool_start")

\* C1: every run ends, and when it has ended its event sequence holds exactly one
\* terminal event (done or error), which is its last event.
EndsWithOneTerminal(r) ==
    /\ Events(r) # << >>
    /\ Last(Events(r)).type \in Terminals
    /\ Cardinality(Positions(r, Terminals)) = 1

C1_RunTerminates ==
    /\ \A r \in Runs : Started(r) ~> Finished(r)
    /\ [](\A r \in Runs : Finished(r) => EndsWithOneTerminal(r))

C1_Witness ==
    /\ Finished("r1")
    /\ HasEvent("r1", "tool_error")
    /\ Last(Events("r1")).type = "error"
    /\ ErrorKind(Last(Events("r1"))) = "AI error"

\* C2: a run emits at most one response; a response is followed at once by done,
\* which is the last event; done only ever follows a response.
C2_ResponseThenDone ==
    \A r \in Runs :
      /\ Cardinality(Positions(r, {"response"})) <= 1
      /\ Cardinality(Positions(r, {"done"})) <= 1
      /\ \A i \in Positions(r, {"response"}) :
           /\ i < Len(Events(r)) =>
                Events(r)[i + 1].type = "done" /\ Len(Events(r)) = i + 1
           /\ i = Len(Events(r)) => run[r].pc = "y_response"
      /\ \A i \in Positions(r, {"done"}) :
           i > 1 /\ Events(r)[i - 1].type = "response"

C2_Witness ==
    /\ Finished("r1")
    /\ HasEvent("r1", "tool_complete")
    /\ Len(Events("r1")) > 2
    /\ Events("r1")[Len(Events("r1")) - 1].type = "response"
    /\ Last(Events("r1")).type = "done"

\* C3: a run emits at most one error, and nothing follows it; an LLM turn
\* classified as error gives one error event and the run makes no further turn.
C3_ErrorIsLast ==
    \A r \in Runs :
      /\ Cardinality(Positions(r, {"error"})) <= 1
      /\ \A i \in Positions(r, {"error"}) :
           /\ i = Len(Events(r))
           /\ run[r].pc \in {"y_error", "finished"}

C3_Witness ==
    /\ Finished("r1")
    /\ run["r1"].chats = 2
    /\ Last(Events("r1")).type = "error"
    /\ ErrorKind(Last(Events("r1"))) = "AI error"

\* C4: the tool_start events of a run are, in order, the calls its tool-calls
\* turns requested (all of them once a batch is over), and each tool_start is
\* followed at once by exactly one tool_complete or tool_error of the same name.
C4_ToolStartPaired ==
    \A r \in Runs :
      /\ Len(ToolStarts(r)) = Len(Requested(r)) - NotStarted(r)
      /\ \A k \in DOMAIN ToolStarts(r) :
           /\ ToolStarts(r)[k].name = Requested(r)[k].name
           /\ ToolStarts(r)[k].detail = Requested(r)[k].arguments
      /\ \A i \in Positions(r, {"tool_start"}) :
           /\ i < Len(Events(r)) =>
                /\ Events(r)[i + 1].type \in ToolOutcomes
                /\ Events(r)[i + 1].name = Events(r)[i].name
           /\ i = Len(Events(r)) =>
                run[r].pc \in {"y_tool_start", "init_req", "init_notif", "call_req"}
      /\ \A i \in Positions(r, ToolOutcomes) :
           /\ i > 1
           /\ Events(r)[i - 1].type = "tool_start"
           /\ Events(r)[i - 1].name = Events(r)[i].name

C4_Witness ==
    /\ run["r1"].pc = "llm"
    /\ run["r1"].iterations = 3
    /\ \E i \in Positions("r1", {"tool_error"}) :
         /\ ErrorKind(Events("r1")[i]) = "Tool execution failed"
         /\ i < Len(Events("r1"))
         /\ Events("r1")[i + 1].type = "tool_start"
         /\ Events("r1")[i + 1].name # Events("r1")[i].name

\* C5: the LLM is called at most MAX_TOOL_ITERATIONS times; a run that entered
\* the loop and got neither a text nor an error classification made exactly
\* MAX_TOOL_ITERATIONS turns and ends with the single maximum-iterations error,
\* without response or done.
CapError(ev) == ev.type = "error" /\ ErrorKind(ev) = "Maximum tool iterations reached"
AiError(ev) == ev.type = "error" /\ ErrorKind(ev) = "AI error"

C5_IterationCap ==
    \A r \in Runs :
      /\ run[r].chats <= MAX_TOOL_ITERATIONS
      /\ (\E i \in DOMAIN Events(r) : CapError(Events(r)[i])) =>
           run[r].chats = MAX_TOOL_ITERATIONS
      /\ ( /\ Finished(r)
           /\ run[r].chats > 0
           /\ ~HasEvent(r, "response")
           /\ ~\E i \in DOMAIN Events(r) : AiError(Events(r)[i]) )
         => /\ run[r].chats = MAX_TOOL_ITERATIONS
            /\ CapError(Last(Events(r)))
            /\ Cardinality(Positions(r, {"error"})) = 1
            /\ ~HasEvent(r, "done")

C5_Witness ==
    /\ Finished("r1")
    /\ run["r1"].chats = MAX_TOOL_ITERATIONS
    /\ run["r1"].failures = 0
    /\ ~HasEvent("r1", "tool_error")
    /\ CapError(Last(Events("r1")))

\* C9: a tool_error never ends a run: the event after it is the next tool_start,
\* the outcome of a further LLM turn, or the maximum-iterations error after the
\* last turn; an error event is a handshake failure before the first LLM turn, an
\* LLM error classification, or the iteration cap.
HandshakeError(ev) == ev.type = "error" /\ ErrorKind(ev) = "An error occurred"

C9_ToolErrorContinues ==
    \A r \in Runs :
      /\ Finished(r) => Last(Events(r)).type # "tool_error"
      /\ \A i \in Positions(r, {"tool_error"}) :
           /\ i = Len(Events(r)) => run[r].pc \in {"y_tool_result", "llm"}
           /\ i < Len(Events(r)) =>
                \/ Events(r)[i + 1].type \in {"tool_start", "response"}
                \/ AiError(Events(r)[i + 1])
                \/ CapError(Events(r)[i + 1]) /\ run[r].chats = MAX_TOOL_ITERATIONS
      /\ \A i \in Positions(r, {"error"}) :
           \/ HandshakeError(Events(r)[i]) /\ run[r].chats = 0 /\ i = 2
           \/ AiError(Events(r)[i])
           \/ CapError(Events(r)[i])

C9_Witness ==
    /\ run["r1"].pc = "llm"
    /\ \E i \in Positions("r1", {"tool_error"}) :
         /\ i = Len(Events("r1"))
         /\ ErrorKind(Events("r1")[i]) = "Tool execution failed"

-----------------------------------------------------------------------------
(* Properties of the client *)

Trace(c) == api[c].trace

Requests == SelectSeq(wire, LAMBDA b : b.kind = "request")

\* C6: on a fresh client, a second initialize right after one that returned is a
\* no-op: it returns, leaves every field of the client (initialized flag, session
\* id, tool cache, request counter) as the first call left it, and sends nothing.
C6_InitializeIdempotent ==
    \A c \in Callers :
      ( /\ Len(Trace(c)) >= 2
        /\ Trace(c)[1].op = "initialize"
        /\ Trace(c)[1].outcome = "return"
        /\ Trace(c)[2].op = "initialize" )
      => /\ Trace(c)[2].outcome = "return"
         /\ Trace(c)[2].mcp = Trace(c)[1].mcp
         /\ Trace(c)[2].sent = Trace(c)[1].sent

C6_Witness ==
    /\ Len(Trace("a")) >= 2
    /\ Trace("a")[1].op = "initialize"
    /\ Trace("a")[1].outcome = "return"
    /\ Trace("a")[1].mcp.is_initialized
    /\ Trace("a")[1].mcp.request_id = 1
    /\ Trace("a")[1].sent = 2
    /\ Trace("a")[2].op = "initialize"

\* C7: list_tools called twice in a row returns the same list the second time and
\* sends nothing for it, whatever list the server returned, the empty one included.
C7_ListToolsCached ==
    \A c \in Callers :
      \A i \in 1..(Len(Trace(c)) - 1) :
        ( /\ Trace(c)[i].op = "list_tools"
          /\ Trace(c)[i].outcome = "return"
          /\ Trace(c)[i + 1].op = "list_tools" )
        => /\ Trace(c)[i + 1].outcome = "return"
           /\ Trace(c)[i + 1].value = Trace(c)[i].value
           /\ Trace(c)[i + 1].sent = Trace(c)[i].sent

\* C8 as stated: after a run in which initialize or tools/list failed, the run has
\* one error event and the initialized flag is false.
HandshakeFailed(r) == \E i \in DOMAIN Events(r) : HandshakeError(Events(r)[i])

\* The run r has ended and no later run has used the client yet.
AfterRun(r) ==
    /\ Finished(r)
    /\ r = "r1" => run["r2"].pc \in {"idle", "y_thinking"}

C8_FlagFalseAfterFailure ==
    \A r \in Runs :
      (AfterRun(r) /\ HandshakeFailed(r))
      => /\ Cardinality(Positions(r, {"error"})) = 1
         /\ ~mcp.is_initialized

\* C8 amended: a handshake failure gives the run one error event after thinking.
\* When initialize failed the flag is false after the run and the next run sends
\* initialize again; when tools/list failed after a handshake the flag is true
\* after the run, and the next run sends no initialize but tools/list again.
C8_HandshakeFailure ==
    /\ \A r \in Runs :
         HandshakeFailed(r) =>
           /\ Cardinality(Positions(r, {"error"})) = 1
           /\ Len(Events(r)) = 2
    /\ \A r \in Runs :
         (AfterRun(r) /\ HandshakeFailed(r)) =>
           /\ Last(wire).method \in {"initialize", "tools/list"}
           /\ mcp.is_initialized <=> Last(wire).method = "tools/list"
    /\ (HandshakeFailed("r1") /\ run["r2"].pc \notin {"idle", "y_thinking"}) =>
           IF Len(wire) = 1 \/ wire[2].kind = "request"
           THEN /\ Len(wire) >= 2
                /\ wire[2].method = "initialize"
           ELSE /\ Len(wire) >= 4
                /\ wire[3].method = "tools/list"
                /\ wire[4].method = "tools/list"

C8_Witness ==
    /\ HandshakeFailed("r1")
    /\ Len(wire) = 4
    /\ wire[3].method = "tools/list"
    /\ wire[4].method = "tools/list"
    /\ run["r2"].pc = "list_req"
    /\ mcp.is_initialized

\* C10: the ids of the requests one client sends are strictly increasing in the
\* order sent, the first is 1, and none is sent twice, also when runs that share
\* the client interleave at their awaits.
C10_RequestIdsIncrease ==
    /\ Requests # << >> => Requests[1].id = 1
    /\ \A i \in 1..(Len(Requests) - 1) : Requests[i].id < Requests[i + 1].id
    /\ \A i \in DOMAIN Requests : Requests[i].id <= mcp.request_id

C10_Witness ==
    /\ run["r1"].pc = "call_req"
    /\ run["r2"].pc = "list_req"
    /\ Len(Requests) >= 5
    /\ Last(Requests).method = "tools/list"

\* C11: as long as the client has not been disconnected, at most one tools/list
\* request is sent over its lifetime (so the cache is written at most once), also
\* when several runs start together on a fresh client.
ToolsListRequests == SelectSeq(Requests, LAMBDA b : b.method = "tools/list")

C11_CachePopulatedOnce ==
    ~mcp.http_closed => Len(ToolsListRequests) <= 1

\* C12: initialize calls that overlap on a fresh client may each send a handshake,
\* but every initialize that returns leaves the client as one successful
\* initialize does, apart from the request counter; and once an initialize has
\* returned, the failure of another handshake does not take that state away.
AfterOneInitialize == [McpInit EXCEPT !.is_initialized = TRUE, !.request_id = 1]

SameButCounter(m1, m2) == [m1 EXCEPT !.request_id = 0] = [m2 EXCEPT !.request_id = 0]

Returned(c) == \E i \in DOMAIN Trace(c) : Trace(c)[i].outcome = "return"

C12_OverlappingInitialize ==
    /\ \A c \in Callers : \A i \in DOMAIN Trace(c) :
         (Trace(c)[i].op = "initialize" /\ Trace(c)[i].outcome = "return")
         => SameButCounter(Trace(c)[i].mcp, AfterOneInitialize)
    /\ (\E c \in Callers : Returned(c)) => SameButCounter(mcp, AfterOneInitialize)

C12_Witness ==
    /\ Len(wire) = 4
    /\ wire[1].method = "initialize"
    /\ wire[2].method = "initialize"
    /\ Len(Trace("a")) = 1 /\ Trace("a")[1].outcome = "return"
    /\ Len(Trace("b")) = 1 /\ Trace("b")[1].outcome = "return"
    /\ mcp.request_id = 2
    /\ mcp.is_initialized

\* C13: the tools/call request carries, for exactly the keys given to call_tool,
\* the text of each value: None stays None, a string is unchanged, any other
\* value is replaced by its str() text.
Textual(given, sent) ==
    /\ DOMAIN sent = DOMAIN given
    /\ \A k \in DOMAIN given :
         /\ given[k].type = "none" => sent[k] = ArgNone
         /\ given[k].type = "str" => sent[k] = given[k]
         /\ given[k].type \notin {"none", "str"} => sent[k] = ArgStr(given[k].text)

C13_ArgumentsAsText ==
    \A c \in Callers :
      api[c].pc = "call_req"
      => /\ Last(wire).method = "tools/call"
         /\ Last(wire).params.name = api[c].call.name
         /\ Textual(api[c].call.arguments, Last(wire).params.arguments)

C13_Witness ==
    /\ api["a"].pc = "call_req"
    /\ api["a"].call.arguments = [pnr |-> ArgInt("12345"), x |-> ArgNone]
    /\ Last(wire).params.arguments = [pnr |-> ArgStr("12345"), x |-> ArgNone]

\* C14: a requested function call whose arguments text does not parse makes the
\* turn a tool-calls turn with an empty argument map for that call; the run
\* announces the call with tool_start and sends tools/call for it with an empty
\* argument map.
Unparseable(call) == ProviderCall(call.id[2]).arguments.json = "malformed"

C14_MalformedArguments ==
    /\ \A i \in 1..MAX_TOOL_ITERATIONS :
         \A reply \in ProviderReplies(i, FullStub.contents) :
           \A k \in DOMAIN reply.tool_calls :
             reply.tool_calls[k].arguments.json = "malformed"
             => /\ Chat(reply).class = "ToolCallsResponse"
                /\ Chat(reply).tool_calls[k].id = reply.tool_calls[k].id
                /\ Chat(reply).tool_calls[k].name = reply.tool_calls[k].name
                /\ Chat(reply).tool_calls[k].arguments = << >>
    /\ \A r \in Runs :
         /\ \A j \in DOMAIN Requested(r) :
              Unparseable(Requested(r)[j])
              => /\ Requested(r)[j].arguments = << >>
                 /\ j <= Len(ToolStarts(r)) =>
                      /\ ToolStarts(r)[j].name = Requested(r)[j].name
                      /\ ToolStarts(r)[j].detail = << >>
         /\ (run[r].pc = "call_req" /\ Unparseable(ToolCallOf(run[r])))
            => /\ Last(Events(r)).type = "tool_start"
               /\ Last(wire).method = "tools/call"
               /\ Last(wire).params = [name |-> ToolCallOf(run[r]).name,
                                       arguments |-> << >>]

C14_Witness ==
    /\ run["r1"].pc = "call_req"
    /\ Unparseable(ToolCallOf(run["r1"]))
    /\ Last(Events("r1")) = Event("tool_start", "get_pnr", << >>)
    /\ Last(wire).params = [name |-> "get_pnr", arguments |-> << >>]

\* C15: the working conversation of a run keeps the data-model invariant (a tool
\* turn names the id of a call requested by an earlier assistant turn; an
\* assistant turn with calls has empty content).  It is the history, the user
\* turn, then for each tool-calls turn one assistant turn with empty content
\* followed by one tool turn per requested call, in the order of the calls and
\* with their ids, whether call_tool returned or raised.
DataModelInvariant(turns) ==
    \A i \in DOMAIN turns :
      /\ turns[i].role = "tool" =>
           \E j \in 1..(i - 1) :
             /\ turns[j].role = "assistant"
             /\ \E k \in DOMAIN turns[j].tool_calls :
                  turns[j].tool_calls[k].id = turns[i].tool_call_id
      /\ (turns[i].role = "assistant" /\ turns[i].tool_calls # << >>) =>
           turns[i].content = << >>

\* The calls of the current batch whose tool turn has not been appended yet.
Unanswered(r) ==
    IF run[r].pc \in {"y_tool_start", "init_req", "init_notif", "call_req", "y_tool_result"}
       /\ run[r].tool_calls # << >>
    THEN Len(run[r].tool_calls) - run[r].idx + 1
    ELSE 0

ToolTurns(turns) == SelectSeq(turns, LAMBDA t : t.role = "tool")

\* The assistant turn that precedes turn i of the run's own turns.
Asking(turns, i) ==
    CHOOSE p \in 1..(i - 1) :
      /\ turns[p].role = "assistant"
      /\ \A q \in (p + 1)..(i - 1) : turns[q].role = "tool"

C15_ConversationInvariant ==
    \A r \in Runs :
      Started(r) /\ run[r].messages # << >> =>
        LET own == OwnTurns(r) IN
        /\ DataModelInvariant(run[r].history)
        /\ DataModelInvariant(run[r].messages)
        /\ SubSeq(run[r].messages, 1, Len(run[r].history)) = run[r].history
        /\ own[1] = UserTurn("message")
        /\ \A i \in 2..Len(own) :
             /\ own[i].role \in {"assistant", "tool"}
             /\ own[i].role = "assistant" =>
                  /\ own[i].content = << >>
                  /\ own[i].tool_calls # << >>
                  /\ own[i].tool_call_id = None
             /\ own[i].role = "tool" =>
                  /\ \E p \in 2..(i - 1) : own[p].role = "assistant"
                  /\ LET p == Asking(own, i) IN
                       /\ i - p <= Len(own[p].tool_calls)
                       /\ own[i].tool_call_id = own[p].tool_calls[i - p].id
                       /\ own[i].tool_calls = << >>
        /\ Len(ToolTurns(own)) = Len(Requested(r)) - Unanswered(r)

C15_Witness ==
    /\ run["r1"].pc = "llm"
    /\ run["r1"].history = HistoryOf["r2"]
    /\ Len(OwnTurns("r1")) = 6
    /\ OwnTurns("r1")[5].role = "tool"
    /\ OwnTurns("r1")[5].content # << >>
    /\ OwnTurns("r1")[5].content[1] = "Tool execution failed"
    /\ OwnTurns("r1")[5].tool_call_id = <<"call", 1>>
    /\ OwnTurns("r1")[6].tool_call_id = <<"call", 2>>

\* C16: the calls of a run are executed one after the other, in the order the LLM
\* produced them, each once: the tools/call requests on the wire are the started
\* calls in order, with no repetition after a failure, and the request for a call
\* goes out only when every earlier call has its outcome event and its tool turn.
ToolCallRequests == SelectSeq(Requests, LAMBDA b : b.method = "tools/call")

Outcomes(r) == Cardinality(Positions(r, ToolOutcomes))

C16_SequentialToolCalls ==
    \A r \in Runs :
      Started(r) =>
        LET sent == ToolCallRequests IN
        /\ Len(sent) <= Len(ToolStarts(r))
        /\ Len(sent) >= Len(ToolStarts(r)) - 1
        /\ Len(sent) < Len(ToolStarts(r)) => run[r].pc = "y_tool_start"
        /\ \A j \in DOMAIN sent :
             /\ sent[j].params.name = Requested(r)[j].name
             /\ Textual(Requested(r)[j].arguments, sent[j].params.arguments)
        /\ Outcomes(r) >= Len(sent) - 1
        /\ Len(ToolTurns(OwnTurns(r))) >= Len(sent) - 1
        /\ run[r].pc = "call_req" =>
             /\ Outcomes(r) = Len(sent) - 1
             /\ Len(ToolTurns(OwnTurns(r))) = Len(sent) - 1
        /\ run[r].pc # "call_req" => Outcomes(r) = Len(sent)

C16_Witness ==
    /\ run["r1"].pc = "call_req"
    /\ run["r1"].iterations = 2
    /\ run["r1"].idx = 2
    /\ Len(ToolCallRequests) = 3
    /\ Events("r1")[Len(Events("r1")) - 1].type = "tool_error"
    /\ ErrorKind(Events("r1")[Len(Events("r1")) - 1]) = "Tool execution failed"

\* C17: the first event of a run is thinking, there is exactly one, and while the
\* run is suspended at it the run has sent nothing: no initialize, tools/list or
\* tools/call request and no chat call.
C17_ThinkingFirst ==
    \A r \in Runs :
      /\ ~Started(r) => Events(r) = << >>
      /\ Started(r) =>
           /\ Events(r) # << >>
           /\ Events(r)[1].type = "thinking"
           /\ Cardinality(Positions(r, {"thinking"})) = 1
      /\ run[r].pc = "y_thinking" =>
           /\ Len(Events(r)) = 1
           /\ wire = << >>
           /\ mcp.request_id = 0
           /\ run[r].chats = 0
      /\ (wire # << >> \/ run[r].chats > 0) => Started("r1")

C17_Witness ==
    /\ run["r1"].pc = "init_req"
    /\ Events("r1") = << Event("thinking", None, <<"Analyzing your request...">>) >>
    /\ Len(wire) = 1
    /\ wire[1].method = "initialize"

\* C18: when initialize or list_tools raises at the start of a run, the events of
\* the run are exactly thinking and one error, and the run makes no chat call and
\* no tools/call request.
C18_HandshakeFailureEvents ==
    \A r \in Runs :
      /\ HandshakeFailed(r) =>
           /\ Len(Events(r)) = 2
           /\ Events(r)[1].type = "thinking"
           /\ HandshakeError(Events(r)[2])
           /\ run[r].pc \in {"y_error", "finished"}
           /\ run[r].chats = 0
           /\ run[r].messages = << >>
           /\ ToolCallRequests = << >>
           /\ Last(wire).method \in {"initialize", "tools/list"}
      /\ (run[r].pc \in {"y_error", "finished"} /\ run[r].chats = 0) => HandshakeFailed(r)

C18_Witness ==
    /\ Finished("r1")
    /\ HandshakeFailed("r1")
    /\ Len(wire) = 3
    /\ Last(wire).method = "tools/list"
    /\ mcp.cached_tools = << >>

\* C19: an initialize whose request is answered by an error envelope or fails in
\* transport raises; it has sent the request and nothing else (no initialized
\* notification), and it leaves the flag false, the session id absent and the
\* cache empty.  An initialize that returns has sent nothing or both bodies.
SentBefore(c, i) == IF i = 1 THEN 0 ELSE Trace(c)[i - 1].sent

C19_InitializeFailure ==
    \A c \in Callers : \A i \in DOMAIN Trace(c) :
      LET e == Trace(c)[i] IN
      e.op = "initialize" =>
        /\ e.outcome = "raise" =>
             /\ e.value \in {"error", "transport"}
             /\ ~e.mcp.is_initialized
             /\ e.mcp.session_id = None
             /\ e.mcp.cached_tools = << >>
             /\ e.sent <= SentBefore(c, i) + 1
             /\ e.sent = SentBefore(c, i) + 1 =>
                  /\ wire[e.sent].kind = "request"
                  /\ wire[e.sent].method = "initialize"
        /\ e.outcome = "return" =>
             /\ e.mcp.is_initialized
             /\ e.sent \in {SentBefore(c, i), SentBefore(c, i) + 2}

C19_Witness ==
    /\ Len(Trace("a")) = 1
    /\ Trace("a")[1].op = "initialize"
    /\ Trace("a")[1].outcome = "raise"
    /\ Trace("a")[1].value = "error"
    /\ Trace("a")[1].sent = 1
    /\ wire[1].method = "initialize"
    /\ mcp = [McpInit EXCEPT !.request_id = 1]

\* C20: the initialized notification goes out after the reply to initialize and
\* before the flag is set: while its post is awaited the flag is still false.
\* Whether the post went through or failed, the operation goes on as after a
\* handshake: initialize returns and the client is initialized.
C20_NotificationThenFlag ==
    \A c \in Callers :
      /\ api[c].pc = "init_req" =>
           /\ ~mcp.is_initialized
           /\ Last(wire).kind = "request"
           /\ Last(wire).method = "initialize"
      /\ api[c].pc = "init_notif" =>
           /\ ~mcp.is_initialized
           /\ Len(wire) >= 2
           /\ Last(wire).kind = "notification"
           /\ Last(wire).method = "notifications/initialized"
           /\ wire[Len(wire) - 1].method = "initialize"
      /\ \A i \in DOMAIN Trace(c) :
           LET e == Trace(c)[i]
               n == SentBefore(c, i) + 2
           IN  (e.sent >= n /\ wire[n].kind = "notification") =>
                 /\ wire[n - 1].method = "initialize"
                 /\ e.mcp.is_initialized
                 /\ e.op = "initialize" => (e.outcome = "return" /\ e.sent = n)

C20_Witness ==
    /\ Len(Trace("a")) = 1
    /\ Trace("a")[1].op = "initialize"
    /\ Trace("a")[1].outcome = "return"
    /\ Len(wire) = 2
    /\ wire[1].method = "initialize"
    /\ wire[2].method = "notifications/initialized"
    /\ mcp = [McpInit EXCEPT !.request_id = 1, !.is_initialized = TRUE]

\* C21: a run leaves the history its caller passed as it was, and its working
\* conversation is that history, the user turn and the turns of its own tool-calls
\* replies and tool outcomes: nothing a run on the same orchestrator appends at
\* the same time shows up in it.
OutcomeEvents(r) == SelectSeq(Events(r), LAMBDA ev : ev.type \in ToolOutcomes)

C21_RunOwnsConversation ==
    \A r \in Runs :
      Started(r) =>
        /\ run[r].history = HistoryOf[r]
        /\ run[r].messages # << >> =>
             LET own == OwnTurns(r) IN
             /\ SubSeq(run[r].messages, 1, Len(HistoryOf[r])) = HistoryOf[r]
             /\ own[1] = UserTurn("message")
             /\ Len(own) = 1 + run[r].tool_turns + Len(ToolTurns(own))
             /\ Len(ToolTurns(own)) =
                  Len(OutcomeEvents(r)) - (IF run[r].pc = "y_tool_result" THEN 1 ELSE 0)
             /\ \A k \in DOMAIN ToolTurns(own) :
                  ToolTurns(own)[k].content = OutcomeEvents(r)[k].detail
             /\ run[r].tool_turns = 0 => run[r].messages = Append(HistoryOf[r], own[1])

C21_Witness ==
    /\ run["r1"].pc = "llm"
    /\ Len(OwnTurns("r1")) = 3
    /\ OwnTurns("r1")[3].role = "tool"
    /\ run["r2"].pc = "llm"
    /\ run["r2"].history = HistoryOf["r2"]
    /\ run["r2"].messages = Append(HistoryOf["r2"], UserTurn("message"))

\* C22: in the step that hands a tools/list or tools/call request to the
\* transport the initialized flag is true and an initialize request went out
\* before it, however the operations of several users and a disconnect
\* interleave; a list_tools or call_tool whose handshake fails ends without
\* sending anything more.
SentInStep == {i \in DOMAIN wire' : i > Len(wire)}

HandshakeFails(c) ==
    /\ api[c].pc = "init_req"
    /\ api[c].op \in {"list_tools", "call_tool"}
    /\ api'[c].pc = "idle"
    /\ Len(api'[c].trace) = Len(api[c].trace) + 1
    /\ Last(api'[c].trace).outcome = "raise"

InitializedWhenSent ==
    /\ \A i \in SentInStep :
         wire'[i].method \in {"tools/list", "tools/call"}
         => /\ mcp'.is_initialized
            /\ \E j \in 1..(i - 1) : wire'[j].method = "initialize"
    /\ \A c \in Callers : HandshakeFails(c) => wire' = wire

C22_InitializedWhenSent == [][InitializedWhenSent]_vars

C22_Witness ==
    /\ Len(Trace("a")) = 1
    /\ Trace("a")[1].op = "call_tool"
    /\ Trace("a")[1].outcome = "raise"
    /\ Trace("a")[1].value = "error"
    /\ api["b"].pc = "list_req"
    /\ ToolCallRequests = << >>
    /\ Len(ToolsListRequests) = 1
    /\ mcp.http_closed

\* C23: disconnect leaves the flag false, the session id absent, the cache empty
\* and the counter as it was; a handshake that follows a disconnect sends its
\* request, and with an id greater than every id sent before the disconnect.
CounterBefore(c, i) == IF i = 1 THEN 0 ELSE Trace(c)[i - 1].mcp.request_id

DisconnectResets ==
    \A c \in Callers : \A i \in DOMAIN Trace(c) :
      Trace(c)[i].op = "disconnect" =>
        /\ ~Trace(c)[i].mcp.is_initialized
        /\ Trace(c)[i].mcp.session_id = None
        /\ Trace(c)[i].mcp.cached_tools = << >>
        /\ Trace(c)[i].mcp.request_id = CounterBefore(c, i)
        /\ Trace(c)[i].sent = SentBefore(c, i)

HandshakeAfterDisconnect ==
    \A c \in Callers : \A i \in 2..Len(Trace(c)) :
      (Trace(c)[i - 1].op = "disconnect" /\ Trace(c)[i].op = "initialize") =>
        /\ Trace(c)[i].sent > Trace(c)[i - 1].sent
        /\ \A k \in (Trace(c)[i - 1].sent + 1)..Trace(c)[i].sent :
             wire[k].kind = "request" =>
               \A j \in 1..Trace(c)[i - 1].sent :
                 wire[j].kind = "request" => wire[j].id < wire[k].id

C24_SessionIdAbsent ==
    /\ mcp.session_id = None
    /\ \A i \in DOMAIN wire : wire[i].session = None
    /\ \A c \in Callers : \A i \in DOMAIN Trace(c) : Trace(c)[i].mcp.session_id = None

C24_Witness ==
    /\ Len(Trace("a")) = 2
    /\ Trace("a")[1].op = "initialize"
    /\ Trace("a")[1].outcome = "return"
    /\ Trace("a")[2].op = "call_tool"
    /\ Trace("a")[2].outcome = "return"
    /\ Len(wire) = 3
    /\ wire[2].kind = "notification"
    /\ wire[3].method = "tools/call"
    /\ wire[3].session = None
    /\ mcp.is_initialized

====
